---- MODULE Spec2Model ----
(***************************************************************************)
(* A model of ia_remote_upload.py: process_csv() maps process_row() over   *)
(* the rows of a CSV manifest with a pool of worker threads (thread_map).  *)
(* Strings are sequences of one-character strings.                         *)
(***************************************************************************)
EXTENDS Integers, Sequences, FiniteSets, TLC

\* ------------------------------------------------------------------ bounds
MaxRows == 2
MaxWorkers == 2

\* ----------------------------------------------------------------- strings
NL == "\n"

AlwaysSafe ==
  {"a", "b", "c", "h", "p", "t", "u", "x", "0", "1", "2", "5", "_", ".", "-", "~"}

\* The least index of s holding a character of cs, Len(s) + 1 when none does.
FirstIdx(s, cs) ==
  IF \E i \in 1..Len(s) : s[i] \in cs
  THEN CHOOSE i \in 1..Len(s) : s[i] \in cs /\ \A j \in 1..(i - 1) : s[j] \notin cs
  ELSE Len(s) + 1

Tail_(s, i) == SubSeq(s, i, Len(s))

\* urllib.parse.urlparse restricted to scheme://netloc/path?query#fragment.
urlparse(url) ==
  LET c == FirstIdx(url, {":"})
      hasScheme == c <= Len(url) /\ c > 1
                   /\ \A j \in 1..(c - 1) : url[j] \notin {"/", "?", "#"}
      scheme == IF hasScheme THEN SubSeq(url, 1, c - 1) ELSE <<>>
      r1 == IF hasScheme THEN Tail_(url, c + 1) ELSE url
      hasNet == Len(r1) >= 2 /\ r1[1] = "/" /\ r1[2] = "/"
      r2 == IF hasNet THEN Tail_(r1, 3) ELSE r1
      n == FirstIdx(r2, {"/", "?", "#"})
      netloc == IF hasNet THEN SubSeq(r2, 1, n - 1) ELSE <<>>
      r3 == IF hasNet THEN Tail_(r2, n) ELSE r2
      p == FirstIdx(r3, {"?", "#"})
  IN [scheme |-> scheme, netloc |-> netloc, path |-> SubSeq(r3, 1, p - 1)]

\* The %XX escape urllib.parse.quote writes for a character that is not safe.
PercentCode(c) ==
  CASE c = " " -> <<"%", "2", "0">>
    [] c = "%" -> <<"%", "2", "5">>
    [] c = "+" -> <<"%", "2", "B">>
    [] c = "/" -> <<"%", "2", "F">>
    [] c = ":" -> <<"%", "3", "A">>
    [] c = "?" -> <<"%", "3", "F">>
    [] c = "#" -> <<"%", "2", "3">>
    [] OTHER -> <<"%", "X", "X">>

RECURSIVE quote(_, _)
quote(s, safe) ==
  IF s = <<>> THEN <<>>
  ELSE (IF Head(s) \in AlwaysSafe \cup safe THEN <<Head(s)>> ELSE PercentCode(Head(s)))
       \o quote(Tail(s), safe)

encode_url(url) ==
  LET parsed_url == urlparse(url)
  IN parsed_url.scheme \o <<":", "/", "/">> \o parsed_url.netloc
       \o quote(parsed_url.path, {"/", "+"})

\* ------------------------------------------------------------ the manifest
\* csv.DictReader gives every row the columns of the header, in header order.
Header == <<"identifier", "file", "title", "creator">>

Columns(row) == SelectSeq(Header, LAMBDA c : c \in DOMAIN row)

RECURSIVE JoinValues(_, _)
JoinValues(row, cols) ==
  IF cols = <<>> THEN <<>> ELSE row[Head(cols)] \o JoinValues(row, Tail(cols))

\* hashlib.md5(...).hexdigest(), taken as injective on its input string.
Md5Hex(s) == <<"md5", "(">> \o s \o <<")">>

RandomIds == {<<"r", "1">>, <<"r", "2">>}

\* create_identifier: the identifiers it can return for (id_type, row).
create_identifier(idt, row) ==
  IF idt = "hash" THEN {Md5Hex(JoinValues(row, Columns(row)))} ELSE RandomIds

Urls ==
  { <<"h", "t", "t", "p", ":", "/", "/", "x", "/", "a">>,
    <<"h", "t", "t", "p", ":", "/", "/", "x", "/", "b", " ", "c">> }

IdValues == {<<"a">>, <<"b">>}

RowsWithId == [file : Urls, identifier : IdValues]
RowsNoId == [file : Urls]

Manifests ==
  UNION { [1..n -> RowsWithId] \cup [1..n -> RowsNoId] : n \in 1..MaxRows }

IdTypes == {"identifier", "hash", "random"}

\* The identifiers a run over manifest m can hand to the archive.
CandidateIds(m, idt) ==
  IF idt = "identifier"
  THEN {m[i].identifier : i \in {j \in DOMAIN m : "identifier" \in DOMAIN m[j]}}
  ELSE UNION {create_identifier(idt, m[i]) : i \in DOMAIN m}

\* ------------------------------------------------------------------- state
VARIABLES
  id_type,      \* --id_type
  skip,         \* --skip
  delete,       \* --delete
  max_workers,  \* --workers
  cleaned_data, \* the rows process_csv maps over
  remote,       \* identifiers of the items that exist in the archive
  rs,           \* per row: the state of its process_row invocation
  sidecar,      \* failed.txt: the writes it received, in order
  run,          \* the state of process_csv
  arg,          \* the argument of a helper function applied on its own
  result        \* what the helper returned for arg

vars ==
  <<id_type, skip, delete, max_workers, cleaned_data, remote, rs, sidecar, run,
    arg, result>>

Config == <<id_type, skip, delete, max_workers, cleaned_data>>

Pure == <<arg, result>>

NoResult == [done |-> FALSE]

Returned(v) == [done |-> TRUE, value |-> v]

NoId == <<>>

Rows == DOMAIN cleaned_data

\* The rows a pool thread is running.
Running == {"check", "download", "sink", "write", "sleep"}
InFlight == {r \in Rows : rs[r].pc \in Running}

\* process_row is over for the row: it returned or an exception left it.
Ended == {"returned", "raised"}

RowInit ==
  [pc |-> "queued", file_url |-> <<>>, identifier |-> NoId, scratch |-> FALSE,
   calls |-> <<>>, log |-> <<>>, outcome |-> "NONE", fetched |-> "none",
   uploaded |-> "none", oracle |-> "none", wpos |-> 0, dl_failed |-> FALSE]

Init ==
  /\ id_type \in IdTypes
  /\ skip \in BOOLEAN
  /\ delete \in BOOLEAN
  /\ max_workers \in 1..MaxWorkers
  /\ cleaned_data \in Manifests
  /\ remote \in SUBSET CandidateIds(cleaned_data, id_type)
  /\ rs = [r \in DOMAIN cleaned_data |-> RowInit]
  /\ sidecar = <<>>
  /\ run = "running"
  /\ arg = <<>>
  /\ result = NoResult

\* ------------------------------------------------------------- process_row
\* An exception leaves process_row: the pool thread stores it in the row's
\* future and goes back to the queue.
Raised(row_state, exc) ==
  [row_state EXCEPT !.pc = "raised", !.outcome = "RAISED",
                    !.log = Append(@, exc)]

\* The delete argument process_row runs with: the lambda of process_csv
\* passes id_type and skip only, so it is the default of the parameter.
RowDeleteArg(delete_flag) == FALSE

\* The f-string of the two "exists" log lines reads row['identifier'].
ExistsMessage(row, skip_flag) ==
  IF "identifier" \notin DOMAIN row THEN "KeyError"
  ELSE IF skip_flag THEN "Skipping existing item" ELSE "Item already exists"

\* Lines 141-147: the identifiers the row can resolve to, none on a KeyError.
ResolveIdentifier(idt, row) ==
  IF idt = "identifier"
  THEN IF "identifier" \in DOMAIN row THEN {row.identifier} ELSE {}
  ELSE create_identifier(idt, row)

\* StartRow with a pool that starts a thread for every row.
StartRow_Unbounded(r) ==
  /\ rs[r].pc = "queued"
  /\ \A q \in Rows : q < r => rs[q].pc # "queued"
  /\ LET row == cleaned_data[r]
         st == [rs[r] EXCEPT !.file_url = encode_url(row.file)]
         ids == ResolveIdentifier(id_type, row)
     IN IF ids = {}
        THEN rs' = [rs EXCEPT ![r] = Raised(st, "KeyError")]
        ELSE \E id \in ids :
               rs' = [rs EXCEPT ![r] = [st EXCEPT !.identifier = id, !.pc = "check"]]
  /\ UNCHANGED <<Config, Pure, remote, sidecar, run>>

\* A free pool thread takes the oldest queued row and runs lines 137-147.
StartRow(r) ==
  /\ rs[r].pc = "queued"
  /\ \A q \in Rows : q < r => rs[q].pc # "queued"
  /\ Cardinality(InFlight) < max_workers
  /\ LET row == cleaned_data[r]
         st == [rs[r] EXCEPT !.file_url = encode_url(row.file)]
         ids == ResolveIdentifier(id_type, row)
     IN IF ids = {}
        THEN rs' = [rs EXCEPT ![r] = Raised(st, "KeyError")]
        ELSE \E id \in ids :
               rs' = [rs EXCEPT ![r] = [st EXCEPT !.identifier = id, !.pc = "check"]]
  /\ UNCHANGED <<Config, Pure, remote, sidecar, run>>

\* AfterExists without the return of line 155: the row goes on to download.
AfterExists_FallsThrough(st, row, skip_flag) ==
  LET msg == ExistsMessage(row, skip_flag)
  IN IF msg = "KeyError" THEN Raised(st, "KeyError")
     ELSE [st EXCEPT !.log = Append(@, msg), !.scratch = TRUE, !.pc = "download"]

\* Lines 150-155, the item existing: the log line, then return.
AfterExists(st, row, skip_flag) ==
  LET msg == ExistsMessage(row, skip_flag)
  IN IF msg = "KeyError" THEN Raised(st, "KeyError")
     ELSE [st EXCEPT !.log = Append(@, msg), !.pc = "returned",
                     !.outcome = IF skip_flag THEN "SKIPPED" ELSE "FAILED"]

\* CheckExists taking every item as absent, whatever the archive holds.
CheckExists_Blind(r) ==
  /\ rs[r].pc = "check"
  /\ LET st == [rs[r] EXCEPT !.calls = Append(@, <<"get_item", rs[r].identifier>>)]
     IN \E net \in {"ok", "error"} :
          rs' = [rs EXCEPT ![r] =
                   IF net = "error"
                   THEN Raised([st EXCEPT !.oracle = "error"], "TransportError")
                   ELSE [st EXCEPT !.oracle = "absent",
                                   !.log = Append(@, "Starting download"),
                                   !.scratch = TRUE, !.pc = "download"]]
  /\ UNCHANGED <<Config, Pure, remote, sidecar, run>>

\* Lines 150-162: get_item(identifier).exists, the skip/error branch, and
\* otherwise the scratch file of tempfile.NamedTemporaryFile(delete=False).
CheckExists(r) ==
  /\ rs[r].pc = "check"
  /\ LET st == [rs[r] EXCEPT !.calls = Append(@, <<"get_item", rs[r].identifier>>)]
     IN \E net \in {"ok", "error"} :
          rs' = [rs EXCEPT ![r] =
                   IF net = "error"
                   THEN Raised([st EXCEPT !.oracle = "error"], "TransportError")
                   ELSE IF st.identifier \in remote
                   THEN AfterExists([st EXCEPT !.oracle = "exists"],
                                    cleaned_data[r], skip)
                   ELSE [st EXCEPT !.oracle = "absent",
                                   !.log = Append(@, "Starting download"),
                                   !.scratch = TRUE, !.pc = "download"]]
  /\ UNCHANGED <<Config, Pure, remote, sidecar, run>>

\* What download_file_with_progress does with a transfer that ended as res:
\* requests raises on a connection failure or a timeout; any response, also
\* a non-2xx one, is streamed to the file and the function returns True.
download_file_with_progress(res) ==
  IF res = "transport_error" THEN "raise" ELSE "True"

\* Line 164 and, had the download returned False, lines 183-184.
Download(r) ==
  /\ rs[r].pc = "download"
  /\ LET st == [rs[r] EXCEPT !.calls = Append(@, <<"get", rs[r].file_url>>)]
     IN \E res \in {"ok", "http_error", "transport_error"} :
          LET ret == download_file_with_progress(res)
              st2 == [st EXCEPT !.fetched = res]
          IN rs' = [rs EXCEPT ![r] =
                      IF ret = "raise" THEN Raised(st2, "TransportError")
                      ELSE IF ret = "True"
                      THEN [st2 EXCEPT !.log = Append(@, "Downloaded"), !.pc = "sink"]
                      ELSE [st2 EXCEPT !.dl_failed = TRUE, !.pc = "write"]]
  /\ UNCHANGED <<Config, Pure, remote, sidecar, run>>

\* AfterUploadOk without the os.remove of line 179.
AfterUploadOk_KeepsFile(st, lib_removed) ==
  [st EXCEPT !.scratch = st.scratch /\ ~lib_removed,
             !.uploaded = "ok", !.outcome = "DONE", !.pc = "sleep"]

\* Lines 177-180, the upload having returned True: upload(delete=True) may
\* already have removed the local file; the row removes it when it is there.
AfterUploadOk(st, lib_removed) ==
  LET left == st.scratch /\ ~lib_removed
  IN [st EXCEPT !.scratch = IF left THEN FALSE ELSE left,
                !.uploaded = "ok", !.outcome = "DONE", !.pc = "sleep"]

\* AfterUploadFail without the write_failed_url of line 182.
AfterUploadFail_NoRecord(st) ==
  [st EXCEPT !.uploaded = "fail", !.log = Append(@, "Failed to upload"),
             !.outcome = "FAILED", !.pc = "sleep"]

\* Lines 181-182, the upload having returned False: write_failed_url follows.
AfterUploadFail(st) ==
  [st EXCEPT !.uploaded = "fail", !.log = Append(@, "Failed to upload"),
             !.pc = "write"]

\* delete_item, lines 128-133, and line 175.
DeleteItem(r) ==
  LET id == rs[r].identifier
      st == [rs[r] EXCEPT !.calls = @ \o <<<<"delete_item", id>>, <<"get_item", id>>>>]
  IN /\ rs' = [rs EXCEPT ![r] =
                 [st EXCEPT !.calls = (IF id \in remote
                                       THEN Append(@, <<"delete", id>>) ELSE @),
                            !.log = @ \o (IF id \in remote THEN <<>> ELSE <<"not found">>)
                                      \o <<"Deleted item">>,
                            !.outcome = "DONE", !.pc = "sleep"]]
     /\ remote' = remote \ {id}

\* upload_to_internet_archive, lines 104-125, and lines 177-182.
UploadItem(r) ==
  LET id == rs[r].identifier
      st == [rs[r] EXCEPT !.calls = Append(@, <<"upload", id>>)]
  IN \E res \in {"ok", "fail"} :
       IF res = "ok"
       THEN /\ \E lib_removed \in BOOLEAN :
                 rs' = [rs EXCEPT ![r] = AfterUploadOk(st, lib_removed)]
            /\ remote' = remote \cup {id}
       ELSE /\ rs' = [rs EXCEPT ![r] = AfterUploadFail(st)]
            /\ UNCHANGED remote

\* Lines 167-182.
Sink(r) ==
  /\ rs[r].pc = "sink"
  /\ IF RowDeleteArg(delete) THEN DeleteItem(r) ELSE UploadItem(r)
  /\ UNCHANGED <<Config, Pure, sidecar, run>>

\* The offsets at which one write call of write_failed_url can end: the line
\* goes out whole, or the call is cut short and a second call writes the rest.
WriteEnds(line, from) ==
  {k \in {Len(line) \div 2, Len(line)} : k > from}

\* write_failed_url, lines 75-77: open(.., "a"), write, close, under no lock;
\* after a download that returned False, the os.remove of line 185.
WriteFailedUrl(r) ==
  /\ rs[r].pc = "write"
  /\ LET line == rs[r].file_url \o <<NL>>
     IN \E k \in WriteEnds(line, rs[r].wpos) :
          /\ sidecar' = Append(sidecar,
                [row |-> r, text |-> SubSeq(line, rs[r].wpos + 1, k)])
          /\ rs' = [rs EXCEPT ![r] =
                      IF k < Len(line) THEN [@ EXCEPT !.wpos = k]
                      ELSE [@ EXCEPT !.wpos = k, !.outcome = "FAILED",
                                     !.pc = "sleep",
                                     !.scratch = (IF rs[r].dl_failed THEN FALSE ELSE @)]]
  /\ UNCHANGED <<Config, Pure, remote, run>>

\* Line 187: time.sleep(random.uniform(0, sleep)), then process_row returns.
Sleep(r) ==
  /\ rs[r].pc = "sleep"
  /\ rs' = [rs EXCEPT ![r] = [@ EXCEPT !.log = Append(@, "slept"),
                                       !.pc = "returned"]]
  /\ UNCHANGED <<Config, Pure, remote, sidecar, run>>

\* -------------------------------------------------------------- process_csv
\* thread_map is list(tqdm(executor.map(fn, rows))) inside "with executor":
\* the results are taken in row order, so the result thread_map waits for is
\* that of the first row that has not returned.
Awaited ==
  {r \in Rows : rs[r].pc # "returned" /\ \A q \in Rows : q < r => rs[q].pc = "returned"}

\* The awaited result is an exception: executor.map's iterator cancels the
\* futures that have not started and the exception leaves the list(...).
MainRaise ==
  /\ run = "running"
  /\ \E a \in Awaited : rs[a].pc = "raised"
  /\ rs' = [r \in Rows |->
              IF rs[r].pc = "queued"
              THEN [rs[r] EXCEPT !.pc = "cancelled", !.outcome = "CANCELLED"]
              ELSE rs[r]]
  /\ run' = "aborting"
  /\ UNCHANGED <<Config, Pure, remote, sidecar>>

\* The executor's __exit__ waits for the rows in flight; then the exception
\* leaves process_csv.
MainCrash ==
  /\ run = "aborting"
  /\ InFlight = {}
  /\ run' = "crashed"
  /\ UNCHANGED <<Config, Pure, remote, rs, sidecar>>

\* Every result was taken: thread_map returns and process_csv ends.
MainFinish ==
  /\ run = "running"
  /\ Awaited = {}
  /\ run' = "finished"
  /\ UNCHANGED <<Config, Pure, remote, rs, sidecar>>

Next ==
  \/ \E r \in Rows : StartRow(r)
  \/ \E r \in Rows : CheckExists(r)
  \/ \E r \in Rows : Download(r)
  \/ \E r \in Rows : Sink(r)
  \/ \E r \in Rows : WriteFailedUrl(r)
  \/ \E r \in Rows : Sleep(r)
  \/ MainRaise
  \/ MainCrash
  \/ MainFinish

Spec == Init /\ [][Next]_vars

\* ------------------------------------------------------------ observations
Calls(r, kind) == {i \in DOMAIN rs[r].calls : rs[r].calls[i][1] = kind}

Logged(r, msg) == \E i \in DOMAIN rs[r].log : rs[r].log[i] = msg

RECURSIVE Flatten(_)
Flatten(chunks) ==
  IF chunks = <<>> THEN <<>> ELSE Head(chunks).text \o Flatten(Tail(chunks))

\* The text of failed.txt.
FileText == Flatten(sidecar)

\* The complete lines of a text, without their newline.
RECURSIVE Lines(_)
Lines(text) ==
  LET n == FirstIdx(text, {NL})
  IN IF n > Len(text) THEN <<>>
     ELSE <<SubSeq(text, 1, n - 1)>> \o Lines(Tail_(text, n + 1))

\* What follows the last newline of a text.
RECURSIVE Unfinished(_)
Unfinished(text) ==
  LET n == FirstIdx(text, {NL})
  IN IF n > Len(text) THEN text ELSE Unfinished(Tail_(text, n + 1))

\* How many lines of failed.txt are the row's encoded URL.
SidecarCount(r) ==
  Cardinality({i \in DOMAIN Lines(FileText) : Lines(FileText)[i] = rs[r].file_url})

\* --------------------------------------------------------------- the claims

\* C1: a row whose identifier the archive reports as existing, skip being
\* on, makes no download, upload or delete call, creates no scratch file and
\* ends SKIPPED with the skip line logged, under every identifier policy and
\* also when the manifest has no identifier column.
C1_SkipExisting ==
  \A r \in Rows :
    (skip /\ rs[r].oracle = "exists") =>
      /\ Calls(r, "get") = {} /\ Calls(r, "upload") = {} /\ Calls(r, "delete") = {}
      /\ ~rs[r].scratch
      /\ rs[r].outcome = "SKIPPED"
      /\ Logged(r, "Skipping existing item")

\* C2: a row whose download met a transport error (connection failure,
\* timeout, non-2xx status) has, once process_row is over, no scratch file,
\* its URL exactly once in failed.txt, and the outcome FAILED.
C2_FetchFailure ==
  \A r \in Rows :
    (rs[r].fetched \in {"http_error", "transport_error"} /\ rs[r].pc \in Ended) =>
      /\ ~rs[r].scratch
      /\ SidecarCount(r) = 1
      /\ rs[r].outcome = "FAILED"

\* C3: no error of a row reaches process_csv, and no row is left unprocessed
\* because of another row's error.
C3_FaultIsolation ==
  /\ run \notin {"aborting", "crashed"}
  /\ \A r \in Rows : rs[r].pc # "cancelled"

\* C4: when the run has ended, every row has one terminal outcome, DONE,
\* SKIPPED or FAILED.
C4_AllRowsTerminal ==
  run \in {"finished", "crashed"} =>
    \A r \in Rows : rs[r].outcome \in {"DONE", "SKIPPED", "FAILED"}

\* C5: a row whose process_row returned (after an upload that succeeded or
\* failed, or after a delete) has left no scratch file behind.
C5_ScratchCleanup ==
  \A r \in Rows : rs[r].pc = "returned" => ~rs[r].scratch

\* C6: in a run without --delete, a row whose identifier did not exist,
\* whose download succeeded and whose upload succeeded was uploaded under its
\* resolved identifier (the one given to the existence check), has no scratch
\* file and no line in failed.txt, and ends DONE.
C6_UploadSuccess ==
  \A r \in Rows :
    (~delete /\ rs[r].oracle = "absent" /\ rs[r].fetched = "ok"
       /\ rs[r].uploaded = "ok") =>
      /\ rs[r].identifier \in ResolveIdentifier(id_type, cleaned_data[r])
      /\ rs[r].calls = << <<"get_item", rs[r].identifier>>,
                          <<"get", rs[r].file_url>>,
                          <<"upload", rs[r].identifier>> >>
      /\ ~rs[r].scratch
      /\ \A i \in DOMAIN sidecar : sidecar[i].row # r
      /\ rs[r].outcome = "DONE"
      /\ rs[r].pc \in {"sleep", "returned"}

C6_Witness ==
  \E r \in Rows :
    /\ ~delete /\ rs[r].oracle = "absent" /\ rs[r].fetched = "ok"
    /\ rs[r].uploaded = "ok" /\ rs[r].pc = "returned"
    /\ run = "finished"

\* C7: in a run started with --delete, no row calls upload, and every row
\* that got past its download calls delete_item with its identifier.
C7_DeleteMode ==
  delete =>
    \A r \in Rows :
      /\ Calls(r, "upload") = {}
      /\ (rs[r].fetched # "none" /\ rs[r].pc \in {"write", "sleep", "returned"}) =>
           \E i \in Calls(r, "delete_item") :
             rs[r].calls[i] = <<"delete_item", rs[r].identifier>>

\* C8: in a run started with --delete, a row whose identifier named an
\* existing item has called the archive's delete for it by the time
\* process_row is over.
C8_DeleteExisting ==
  \A r \in Rows :
    (delete /\ rs[r].oracle = "exists" /\ rs[r].pc \in Ended) =>
      \E i \in Calls(r, "delete") :
        rs[r].calls[i] = <<"delete", rs[r].identifier>>

\* C9: a row whose identifier the archive reports as existing, skip being
\* off, ends FAILED with "Item already exists" logged and no download or
\* upload, without an exception, under every identifier policy.
C9_ExistsNoSkip ==
  \A r \in Rows :
    (~skip /\ rs[r].oracle = "exists") =>
      /\ rs[r].outcome = "FAILED"
      /\ Logged(r, "Item already exists")
      /\ Calls(r, "get") = {} /\ Calls(r, "upload") = {}
      /\ rs[r].pc = "returned"

\* C10: failed.txt is always a sequence of complete lines, each the URL of a
\* row whose append is done or under way, one line per finished append; what
\* follows the last newline is the start of a line still being written.
C10_SidecarLines ==
  LET text == FileText
      done == {r \in Rows : rs[r].wpos = Len(rs[r].file_url) + 1}
      busy == {r \in Rows : rs[r].wpos > 0} \ done
  IN /\ \A i \in DOMAIN Lines(text) :
          \E r \in done \cup busy : Lines(text)[i] = rs[r].file_url
     /\ Len(Lines(text)) = Cardinality(done)
     /\ \/ Unfinished(text) = <<>>
        \/ \E r \in busy : Unfinished(text) = SubSeq(rs[r].file_url \o <<NL>>, 1, rs[r].wpos)

\* The text the row's own write calls put into failed.txt.
RowText(r) == Flatten(SelectSeq(sidecar, LAMBDA c : c.row = r))

\* C11: in a run without --delete, a row whose download succeeded and whose
\* upload failed has not raised; once its write_failed_url is over, what it
\* appended to failed.txt is its URL and a newline, once, and it is FAILED.
C11_UploadFailureRecorded ==
  \A r \in Rows :
    (~delete /\ rs[r].fetched = "ok" /\ rs[r].uploaded = "fail") =>
      /\ rs[r].pc \in {"write", "sleep", "returned"}
      /\ rs[r].pc \in {"sleep", "returned"} =>
           /\ RowText(r) = rs[r].file_url \o <<NL>>
           /\ rs[r].file_url = encode_url(cleaned_data[r].file)
           /\ rs[r].outcome = "FAILED"

C11_Witness ==
  \E r \in Rows :
    /\ ~delete /\ rs[r].fetched = "ok" /\ rs[r].uploaded = "fail"
    /\ rs[r].pc = "returned"
    /\ run = "finished"

\* C12: at most max_workers rows are in flight, the pacing sleep included,
\* and no row is run a second time (it queries the archive at most once).
C12_ConcurrencyBound ==
  /\ Cardinality(InFlight) <= max_workers
  /\ \A r \in Rows : Cardinality(Calls(r, "get_item")) <= 1

C12_Witness ==
  /\ Cardinality(InFlight) = max_workers
  /\ \E r \in Rows : rs[r].pc = "queued"
  /\ \E r \in Rows : rs[r].pc = "sleep"

\* C13: under --id_type identifier the identifier checked and uploaded is
\* the row's identifier field as it is; a row without the field makes no
\* archive or download call and is fatal to itself only: the run goes on and
\* no other row is left out.
C13_ExplicitIdentifier ==
  id_type = "identifier" =>
    \A r \in Rows :
      IF "identifier" \in DOMAIN cleaned_data[r]
      THEN /\ rs[r].identifier \in {NoId, cleaned_data[r].identifier}
           /\ \A i \in Calls(r, "get_item") \cup Calls(r, "upload") :
                rs[r].calls[i][2] = cleaned_data[r].identifier
      ELSE /\ rs[r].calls = <<>>
           /\ rs[r].pc \in {"queued", "raised"}
           /\ run \notin {"aborting", "crashed"}

\* C17: a download that met a transport error (connection failure, timeout,
\* non-2xx status) neither raises nor counts as downloaded, and the row
\* never calls upload.
C17_FetcherReportsFailure ==
  \A r \in Rows :
    rs[r].fetched \in {"http_error", "transport_error"} =>
      /\ rs[r].pc # "raised"
      /\ ~Logged(r, "Downloaded")
      /\ Calls(r, "upload") = {}

\* C18: a row whose process_row returned, as DONE, SKIPPED or FAILED, went
\* through the pacing sleep before its thread was free again.
C18_PacingAfterEveryRow ==
  \A r \in Rows :
    (rs[r].pc = "returned" /\ rs[r].outcome \in {"DONE", "SKIPPED", "FAILED"}) =>
      Logged(r, "slept")

C20_NoDuplicateUpload ==
  (max_workers > 1 /\ id_type \in {"hash", "identifier"}) =>
    \A r, q \in Rows :
      (r # q /\ rs[r].identifier = rs[q].identifier) =>
        ~(rs[r].uploaded = "ok" /\ rs[q].uploaded = "ok")

\* The row makes its existence check in this step, another row with the
\* same identifier having completed its upload.
ChecksAfterUpload(r) ==
  /\ rs[r].pc = "check"
  /\ rs'[r].pc # "check"
  /\ rs'[r].oracle # "error"
  /\ \E q \in Rows \ {r} :
       rs[q].identifier = rs[r].identifier /\ rs[q].uploaded = "ok"

\* C20 as amended: a row that makes its existence check after another row
\* with the same identifier completed its upload sees the item as existing
\* and ends there, without download or upload; hence with one worker two
\* rows with the same identifier never both get an upload through.
C20_SecondRowSeesUpload ==
  /\ [][\A r \in Rows :
          ChecksAfterUpload(r) =>
            /\ rs'[r].oracle = "exists"
            /\ rs'[r].pc \in Ended
            /\ rs'[r].calls = << <<"get_item", rs[r].identifier>> >>]_vars
  /\ [](max_workers = 1 =>
          \A r, q \in Rows :
            (r # q /\ rs[r].identifier = rs[q].identifier) =>
              ~(rs[r].uploaded = "ok" /\ rs[q].uploaded = "ok"))

C20_Witness ==
  \E r, q \in Rows :
    /\ r # q /\ rs[r].identifier = rs[q].identifier
    /\ rs[q].uploaded = "ok"
    /\ rs[r].oracle = "exists" /\ rs[r].outcome = "SKIPPED"
    /\ run = "finished"

\* ------------------------------------------------- the helpers on their own
\* The state process_csv is in when nothing runs.
Idle ==
  /\ id_type = "hash" /\ skip = FALSE /\ delete = FALSE /\ max_workers = 1
  /\ cleaned_data = <<>> /\ remote = {} /\ rs = <<>> /\ sidecar = <<>>
  /\ run = "finished"

Main == <<Config, remote, rs, sidecar, run>>

PlainUrl == <<"h", "t", "t", "p", ":", "/", "/", "x", "/", "a">>

\* Cell values of the metadata columns.
CellValues == {<<"a">>, <<"a", "b">>, <<"b">>, <<"b", "c">>, <<"c">>}

HashRows == [file : {PlainUrl}, title : CellValues, creator : CellValues]

\* create_identifier("hash", row) for two rows of a manifest.
InitHash ==
  /\ Idle
  /\ arg \in HashRows \X HashRows
  /\ result = NoResult

HashPair ==
  /\ result = NoResult
  /\ result' = Returned(<< CHOOSE id \in create_identifier("hash", arg[1]) : TRUE,
                           CHOOSE id \in create_identifier("hash", arg[2]) : TRUE >>)
  /\ UNCHANGED <<Main, arg>>

SpecHash == InitHash /\ [][HashPair]_vars

\* C14: under the hash policy two rows with the same content get the same
\* identifier and two rows with different content get different ones, md5
\* taken as injective on the string it is given.
C14_HashIdentifier ==
  result.done =>
    /\ arg[1] = arg[2] => result.value[1] = result.value[2]
    /\ arg[1] # arg[2] => result.value[1] # result.value[2]

\* Characters below 0x20: NUL, SOH, and the whitespace TAB, LF, CR.
NUL == "\\x00"
SOH == "\\x01"
TAB == "\t"
CR == "\r"
Below20 == {NUL, SOH, TAB, NL, CR}

\* clean_metadata_text, lines 63-64: text.replace("\x00", "").
clean_metadata_text(text) == SelectSeq(text, LAMBDA c : c # NUL)

\* clean_csv_data, lines 67-72.
clean_csv_data(csv_data) ==
  [i \in DOMAIN csv_data |->
     [k \in DOMAIN csv_data[i] |-> clean_metadata_text(csv_data[i][k])]]

\* The metadata of lines 167-171.
Metadata(row) ==
  [k \in DOMAIN row \ {"identifier", "file"} |-> row[k]]

MaxCell == 3

RECURSIVE StringsUpTo(_, _)
StringsUpTo(alphabet, n) ==
  IF n = 0 THEN {<<>>}
  ELSE LET shorter == StringsUpTo(alphabet, n - 1)
       IN shorter \cup {Append(t, c) : t \in shorter, c \in alphabet}

RawRows ==
  [file : {PlainUrl}, identifier : {<<"a">>},
   title : StringsUpTo({"a", NUL, SOH, TAB}, MaxCell)]

\* process_csv cleaning a one-row manifest, process_row building the metadata.
InitMeta ==
  /\ Idle
  /\ arg \in {<<row>> : row \in RawRows}
  /\ result = NoResult

CleanAndBuild ==
  /\ result = NoResult
  /\ result' = Returned(Metadata(clean_csv_data(arg)[1]))
  /\ UNCHANGED <<Main, arg>>

SpecMeta == InitMeta /\ [][CleanAndBuild]_vars

\* C15: the metadata handed to upload has no key file or identifier and no
\* value with a character below 0x20 other than tab, newline, carriage
\* return.
C15_MetadataClean ==
  result.done =>
    /\ "file" \notin DOMAIN result.value
    /\ "identifier" \notin DOMAIN result.value
    /\ \A k \in DOMAIN result.value : \A i \in DOMAIN result.value[k] :
         result.value[k][i] \notin Below20 \ {TAB, NL, CR}

MaxPath == 3

UrlPrefix == <<"h", "t", "t", "p", ":", "/", "/", "x", "/">>

PathChars == {"a", " ", "%", "2", "0", "+", "/"}

TestUrls == {UrlPrefix \o p : p \in StringsUpTo(PathChars, MaxPath)}

\* encode_url applied to a URL of the manifest.
InitUrl ==
  /\ Idle
  /\ arg \in TestUrls
  /\ result = NoResult

EncodeUrl ==
  /\ result = NoResult
  /\ result' = Returned(encode_url(arg))
  /\ UNCHANGED <<Main, arg>>

SpecUrl == InitUrl /\ [][EncodeUrl]_vars

HexDigits == {"0", "1", "2", "3", "4", "5", "6", "7", "8", "9", "A", "B", "C", "D", "E", "F"}

\* The path needs no encoding: each character is unreserved, "/" or "+", or
\* belongs to a %XX escape.
IsEncodedPath(p) ==
  \A i \in DOMAIN p :
    \/ p[i] \in AlwaysSafe \cup {"/", "+"}
    \/ p[i] = "%" /\ i + 2 <= Len(p) /\ p[i + 1] \in HexDigits /\ p[i + 2] \in HexDigits

\* C16: encoding an encoded URL changes nothing, and a URL whose path needs
\* no encoding (already percent-encoded paths included) is returned as it is.
C16_EncodeIdempotent ==
  result.done =>
    /\ encode_url(result.value) = result.value
    /\ IsEncodedPath(urlparse(arg).path) => result.value = arg

====
